---- MODULE Spec2Model ----
(***************************************************************************)
(* pyesql/parser.py: the line-oriented parser of annotated SQL sources     *)
(* (LineParser, parse_query, parse_queries) and the operation generated    *)
(* for each parsed query (_make_query_fn, parse_source).                   *)
(*                                                                         *)
(* A string is a sequence of one-character strings; a list of strings is   *)
(* a sequence of such sequences.  Python's None is the empty tuple and a   *)
(* value that may be None is wrapped in a one-element tuple.               *)
(***************************************************************************)
EXTENDS Integers, Sequences, FiniteSets, TLC

VARIABLES source, parser, pc, name, statement, doc_lines, doc, body_lines,
          queries, error, returned, header, invoked, calls, ret

vars == <<source, parser, pc, name, statement, doc_lines, doc, body_lines,
          queries, error, returned, header, invoked, calls, ret>>

\* ------------------------------------------------------------------ bounds

\* Largest number of lines of a source text.
MaxLines == 4

\* ------------------------------------------------------------- characters

None == <<>>

Some(x) == <<x>>

NL == "\n"

\* The characters \s matches that can occur inside a line.
IsSpace(c) == c \in {" ", "\t"}

\* [a-zA-Z0-9_]
IdentChars ==
    {"a","b","c","d","e","f","g","h","i","j","k","l","m","n","o","p","q","r",
     "s","t","u","v","w","x","y","z",
     "A","B","C","D","E","F","G","H","I","J","K","L","M","N","O","P","Q","R",
     "S","T","U","V","W","X","Y","Z",
     "0","1","2","3","4","5","6","7","8","9","_"}

\* \s* from position i of s: the position after the longest run of whitespace.
RECURSIVE SkipSpaces(_, _)
SkipSpaces(s, i) ==
    IF i <= Len(s) /\ IsSpace(s[i]) THEN SkipSpaces(s, i + 1) ELSE i

\* [a-zA-Z0-9_]* from position i of s.
RECURSIVE SkipIdent(_, _)
SkipIdent(s, i) ==
    IF i <= Len(s) /\ s[i] \in IdentChars THEN SkipIdent(s, i + 1) ELSE i

\* The literal lit occurs in s at position i.
Literal(s, i, lit) ==
    /\ i + Len(lit) - 1 <= Len(s)
    /\ \A k \in 1..Len(lit) : s[i + k - 1] = lit[k]

\* WHITESPACE_RE.match(s): '^\s*$'
WHITESPACE_RE(s) == SkipSpaces(s, 1) = Len(s) + 1

\* NAME_RE.match(s): '^\s*--\s*name:\s*([a-zA-Z0-9_]+!?)\s*$'.
\* None when s does not match, Some(group(1)) when it does.
NAME_RE(s) ==
    LET i1 == SkipSpaces(s, 1) IN
    IF ~Literal(s, i1, <<"-", "-">>) THEN None ELSE
    LET i2 == SkipSpaces(s, i1 + 2) IN
    IF ~Literal(s, i2, <<"n", "a", "m", "e", ":">>) THEN None ELSE
    LET i3 == SkipSpaces(s, i2 + 5)
        i4 == SkipIdent(s, i3)
        i5 == IF i4 <= Len(s) /\ s[i4] = "!" THEN i4 + 1 ELSE i4
        i6 == SkipSpaces(s, i5)
    IN  IF i4 > i3 /\ i6 = Len(s) + 1 THEN Some(SubSeq(s, i3, i5 - 1)) ELSE None

\* DOC_RE.match(s): '^\s*--\s*'.  None when s does not match, Some(number of
\* characters matched) when it does.
DOC_RE(s) ==
    LET i1 == SkipSpaces(s, 1) IN
    IF Literal(s, i1, <<"-", "-">>) THEN Some(SkipSpaces(s, i1 + 2) - 1) ELSE None

\* SubDoc with the pattern '^\s*--\s?': one whitespace character at most is
\* removed after the marker.
SubDoc_OneSpace(s) ==
    LET i1 == SkipSpaces(s, 1) IN
    IF ~Literal(s, i1, <<"-", "-">>) THEN s
    ELSE IF i1 + 2 <= Len(s) /\ IsSpace(s[i1 + 2])
         THEN SubSeq(s, i1 + 3, Len(s))
         ELSE SubSeq(s, i1 + 2, Len(s))

\* re.sub(DOC_RE, '', s): the pattern is anchored, so only a match at the
\* start of s is replaced.
SubDoc(s) ==
    IF DOC_RE(s) = None THEN s ELSE SubSeq(s, DOC_RE(s)[1] + 1, Len(s))

\* '\n'.join(ls)
RECURSIVE Join(_)
Join(ls) ==
    IF ls = <<>> THEN <<>>
    ELSE IF Len(ls) = 1 THEN ls[1]
    ELSE ls[1] \o <<NL>> \o Join(Tail(ls))

\* text.splitlines(), for a text whose only line boundary is '\n': the lines
\* without their boundaries; a final boundary opens no further line.
RECURSIVE SplitFrom(_, _, _)
SplitFrom(text, i, cur) ==
    IF i > Len(text) THEN (IF cur = <<>> THEN <<>> ELSE <<cur>>)
    ELSE IF text[i] = NL THEN <<cur>> \o SplitFrom(text, i + 1, <<>>)
    ELSE SplitFrom(text, i + 1, Append(cur, text[i]))

splitlines(text) == SplitFrom(text, 1, <<>>)

\* EndsWithBang testing the first character instead of the last.
EndsWithBang_First(s) == Len(s) > 0 /\ s[1] = "!"

\* name.endswith('!')
EndsWithBang(s) == Len(s) > 0 /\ s[Len(s)] = "!"

\* ------------------------------------------------------------- LineParser

\* iter(ls): a list iterator, the list and the number of items taken from it.
iter(ls) == [seq |-> ls, index |-> 0]

\* LineParserNext counting a line also when the iterator has none left.
LineParserNext_CountAtEnd(p) ==
    IF p.lines.index >= Len(p.lines.seq)
    THEN [p EXCEPT !.line = None, !.linecount = @ + 1]
    ELSE [lines |-> [p.lines EXCEPT !.index = @ + 1],
          line |-> Some(p.lines.seq[p.lines.index + 1]),
          linecount |-> p.linecount + 1]

\* LineParser.next
LineParserNext(p) ==
    IF p.lines.index >= Len(p.lines.seq)
    THEN [p EXCEPT !.line = None]
    ELSE [lines |-> [p.lines EXCEPT !.index = @ + 1],
          line |-> Some(p.lines.seq[p.lines.index + 1]),
          linecount |-> p.linecount + 1]

\* LineParser.eof
eof(p) == p.line = None

\* LineParser.skip_whitespace
RECURSIVE skip_whitespace(_)
skip_whitespace(p) ==
    IF ~eof(p) /\ WHITESPACE_RE(p.line[1])
    THEN skip_whitespace(LineParserNext(p))
    ELSE p

\* LineParser.__init__
LineParser(text) ==
    LineParserNext([lines |-> iter(splitlines(text)), line |-> None,
                    linecount |-> 0])

\* ----------------------------------------------------------------- inputs

\* The lines a source text is made of.
LineSet ==
    { <<>>,
      <<" ", "\t">>,
      <<"-", "-">>,
      <<"-", "-", "n", "a", "m", "e", ":", "a">>,
      <<" ", "-", "-", " ", "n", "a", "m", "e", ":", " ", "a", "!", " ">>,
      <<"-", "-", "n", "a", "m", "e", ":", "b", "!">>,
      <<"-", "-", " ", " ", "n", "a", "m", "e", ":">>,
      <<"X">>,
      <<" ", "Y", " ">> }

\* Every line followed by a line boundary.
RECURSIVE Text(_)
Text(ls) == IF ls = <<>> THEN <<>> ELSE ls[1] \o <<NL>> \o Text(Tail(ls))

Sources == UNION { [1..n -> LineSet] : n \in 0..MaxLines }

\* The execution contexts an operation is called with: a connection, a
\* session, or both.
Contexts ==
    { [connection |-> "connection", session |-> None],
      [connection |-> None, session |-> Some("session")],
      [connection |-> "connection", session |-> Some("session")] }

\* The named parameters of a call.
Kwargs == {"kwargs1", "kwargs2"}

\* ------------------------------------------------------------------ errors

NoError == [msg |-> "", linecount |-> 0, query |-> <<>>]

\* ParseError("{}: Expecting ...".format(parser.linecount[, name]))
ParseError(msg, linecount, query) ==
    [msg |-> msg, linecount |-> linecount, query |-> query]

ExpectingName == "Expecting '-- name: <query-name>'"

ExpectingDocOrBody == "Expecting documentation or query body for query"

ExpectingBody == "Expecting query body for query"

\* The position in the source of the parser's current line; one past the last
\* line at end of input.
Position(p) == IF eof(p) THEN Len(p.lines.seq) + 1 ELSE p.lines.index

NoCall == [query |-> <<>>, self |-> [connection |-> None, session |-> None],
           kwargs |-> ""]

\* Query = namedtuple('Query', ['name', 'statement', 'doc', 'body'])
Query(n, s, d, b) == [name |-> n, statement |-> s, doc |-> d, body |-> b]

\* ------------------------------------------------------------------- Init

Init ==
    /\ \E ls \in Sources : source = Text(ls)
    /\ parser = LineParser(source)
    /\ pc = "parse_queries"
    /\ name = <<>>
    /\ statement = FALSE
    /\ doc_lines = <<>>
    /\ doc = <<>>
    /\ body_lines = <<>>
    /\ queries = <<>>
    /\ error = NoError
    /\ returned = <<>>
    /\ header = 0
    /\ invoked = NoCall
    /\ calls = <<>>
    /\ ret = ""

Locals == <<name, statement, doc_lines, doc, body_lines, header>>

CallVars == <<invoked, calls, ret>>

\* parse_queries, line 85: the loop test.
ParseQueriesLoop ==
    /\ pc = "parse_queries"
    /\ pc' = IF eof(parser) THEN "return" ELSE "parse_query"
    /\ UNCHANGED <<source, parser, queries, error, returned, Locals, CallVars>>

\* raise ParseError(...): the parse stops, the locals of parse_query are gone.
Raise(p, e) ==
    /\ parser' = p
    /\ error' = e
    /\ pc' = "raised"
    /\ name' = <<>>
    /\ statement' = FALSE
    /\ doc_lines' = <<>>
    /\ doc' = <<>>
    /\ body_lines' = <<>>
    /\ header' = 0

\* parse_query, lines 42-61: the name line, up to the documentation loop.
ParseName ==
    /\ pc = "parse_query"
    /\ LET p1 == skip_whitespace(parser) IN
       IF eof(p1) \/ NAME_RE(p1.line[1]) = None
       THEN Raise(p1, ParseError(ExpectingName, p1.linecount, <<>>))
       ELSE LET group1 == NAME_RE(p1.line[1])[1]
                bang == EndsWithBang(group1)
                n == IF bang THEN SubSeq(group1, 1, Len(group1) - 1) ELSE group1
                p2 == skip_whitespace(LineParserNext(p1))
            IN  IF eof(p2)
                THEN Raise(p2, ParseError(ExpectingDocOrBody, p2.linecount, n))
                ELSE /\ parser' = p2
                     /\ name' = n
                     /\ statement' = bang
                     /\ doc_lines' = <<>>
                     /\ header' = Position(p1)
                     /\ pc' = "doc"
                     /\ UNCHANGED <<doc, body_lines, error>>
    /\ UNCHANGED <<source, queries, returned, CallVars>>

\* parse_query, lines 62-64: one turn of the documentation loop.
ParseDocLine ==
    /\ pc = "doc"
    /\ ~eof(parser) /\ DOC_RE(parser.line[1]) # None
    /\ doc_lines' = Append(doc_lines, SubDoc(parser.line[1]))
    /\ parser' = LineParserNext(parser)
    /\ UNCHANGED <<source, pc, name, statement, doc, body_lines, queries,
                   error, returned, header, CallVars>>

\* ParseDocEnd without the test of line 69: a block with no body is accepted.
ParseDocEnd_NoBodyCheck ==
    /\ pc = "doc"
    /\ ~(~eof(parser) /\ DOC_RE(parser.line[1]) # None)
    /\ parser' = skip_whitespace(parser)
    /\ doc' = Join(doc_lines)
    /\ body_lines' = <<>>
    /\ pc' = "body"
    /\ UNCHANGED <<name, statement, doc_lines, header, error>>
    /\ UNCHANGED <<source, queries, returned, CallVars>>

\* parse_query, lines 62 and 65-73: the documentation loop ends.
ParseDocEnd ==
    /\ pc = "doc"
    /\ ~(~eof(parser) /\ DOC_RE(parser.line[1]) # None)
    /\ LET p1 == skip_whitespace(parser) IN
       IF eof(p1) \/ NAME_RE(p1.line[1]) # None
       THEN Raise(p1, ParseError(ExpectingBody, p1.linecount, name))
       ELSE /\ parser' = p1
            /\ doc' = Join(doc_lines)
            /\ body_lines' = <<>>
            /\ pc' = "body"
            /\ UNCHANGED <<name, statement, doc_lines, header, error>>
    /\ UNCHANGED <<source, queries, returned, CallVars>>

\* ParseBodyLine dropping the blank lines of the body.
ParseBodyLine_DropBlank ==
    /\ pc = "body"
    /\ ~eof(parser) /\ NAME_RE(parser.line[1]) = None
    /\ body_lines' = IF WHITESPACE_RE(parser.line[1]) THEN body_lines
                     ELSE Append(body_lines, parser.line[1])
    /\ parser' = LineParserNext(parser)
    /\ UNCHANGED <<source, pc, name, statement, doc_lines, doc, queries,
                   error, returned, header, CallVars>>

\* parse_query, lines 74-76: one turn of the body loop.
ParseBodyLine ==
    /\ pc = "body"
    /\ ~eof(parser) /\ NAME_RE(parser.line[1]) = None
    /\ body_lines' = Append(body_lines, parser.line[1])
    /\ parser' = LineParserNext(parser)
    /\ UNCHANGED <<source, pc, name, statement, doc_lines, doc, queries,
                   error, returned, header, CallVars>>

\* ParseBodyEnd with the body loop also ending at a comment line.
ParseBodyEnd_AtComment ==
    /\ pc = "body"
    /\ ~(~eof(parser) /\ DOC_RE(parser.line[1]) = None)
    /\ returned' = Append(returned, Query(name, statement, doc, Join(body_lines)))
    /\ pc' = "returned"
    /\ UNCHANGED <<source, parser, queries, error, Locals, CallVars>>

\* parse_query, lines 74 and 77-79: the body loop ends and the Query is
\* returned to parse_queries (line 86).
ParseBodyEnd ==
    /\ pc = "body"
    /\ ~(~eof(parser) /\ NAME_RE(parser.line[1]) = None)
    /\ returned' = Append(returned, Query(name, statement, doc, Join(body_lines)))
    /\ pc' = "returned"
    /\ UNCHANGED <<source, parser, queries, error, Locals, CallVars>>

\* SetItem keeping the entry a name already has.
SetItem_KeepFirst(d, q) ==
    IF \E i \in 1..Len(d) : d[i].name = q.name THEN d ELSE Append(d, q)

\* queries[query.name] = query
SetItem(d, q) ==
    IF \E i \in 1..Len(d) : d[i].name = q.name
    THEN [i \in 1..Len(d) |-> IF d[i].name = q.name THEN q ELSE d[i]]
    ELSE Append(d, q)

\* parse_queries, lines 87-88: the query is stored and the blank lines after
\* it are skipped.
Store ==
    /\ pc = "returned"
    /\ queries' = SetItem(queries, returned[Len(returned)])
    /\ parser' = skip_whitespace(parser)
    /\ pc' = "parse_queries"
    /\ name' = <<>>
    /\ statement' = FALSE
    /\ doc_lines' = <<>>
    /\ doc' = <<>>
    /\ body_lines' = <<>>
    /\ header' = 0
    /\ UNCHANGED <<source, error, returned, CallVars>>

\* One call of an execution context: the method called, the object it is
\* called on and its arguments.
CallOf(op, on, body, kwargs) ==
    [op |-> op, on |-> on, body |-> body, kwargs |-> kwargs]

\* inner committing the session after every query, statement or not.
inner_CommitAlways(query, self, kwargs) ==
    LET cursor == IF self.session # None THEN "session" ELSE "cursor"
        open == IF self.session # None THEN <<>>
                ELSE <<CallOf("cursor", "connection", <<>>, "")>>
        execute == <<CallOf("execute", cursor, query.body, kwargs)>>
        commit == IF self.session # None
                  THEN <<CallOf("commit", "session", <<>>, "")>> ELSE <<>>
    IN  IF query.statement
        THEN [calls |-> open \o execute \o commit, ret |-> "execute"]
        ELSE [calls |-> open \o execute \o commit
                        \o <<CallOf("fetchall",
                                    IF self.session # None THEN "result"
                                    ELSE "cursor", <<>>, "")>>,
              ret |-> "fetchall"]

\* _make_query_fn.inner(self, **kwargs): the calls it makes, in order, and
\* what it returns.
inner(query, self, kwargs) ==
    LET cursor == IF self.session # None THEN "session" ELSE "cursor"
        open == IF self.session # None THEN <<>>
                ELSE <<CallOf("cursor", "connection", <<>>, "")>>
        execute == <<CallOf("execute", cursor, query.body, kwargs)>>
    IN  IF query.statement
        THEN IF self.session # None
             THEN [calls |-> open \o execute
                             \o <<CallOf("commit", "session", <<>>, "")>>,
                   ret |-> "execute"]
             ELSE [calls |-> open \o execute, ret |-> "execute"]
        ELSE IF self.session # None
             THEN [calls |-> open \o execute
                             \o <<CallOf("fetchall", "result", <<>>, "")>>,
                   ret |-> "fetchall"]
             ELSE [calls |-> open \o execute
                             \o <<CallOf("fetchall", "cursor", <<>>, "")>>,
                   ret |-> "fetchall"]

\* parse_source, lines 151-159, and a call of one of the generated methods.
Invoke ==
    /\ pc = "return"
    /\ \E i \in 1..Len(queries), self \in Contexts, kwargs \in Kwargs :
          /\ invoked' = [query |-> queries[i].name, self |-> self,
                         kwargs |-> kwargs]
          /\ calls' = inner(queries[i], self, kwargs).calls
          /\ ret' = inner(queries[i], self, kwargs).ret
    /\ pc' = "invoked"
    /\ UNCHANGED <<source, parser, queries, error, returned, Locals>>

Next ==
    \/ ParseQueriesLoop
    \/ ParseName
    \/ ParseDocLine
    \/ ParseDocEnd
    \/ ParseBodyLine
    \/ ParseBodyEnd
    \/ Store
    \/ Invoke

Spec == Init /\ [][Next]_vars

\* ------------------------------------------------- the source, line by line

\* The lines of the source and their number.
L == parser.lines.seq

N == Len(L)

\* A line that is empty or holds only whitespace.
IsBlank(l) == \A i \in 1..Len(l) : IsSpace(l[i])

\* A comment line: whitespace, then the comment marker.
IsComment(l) ==
    \E a \in 1..Len(l) :
        /\ \A i \in 1..(a - 1) : IsSpace(l[i])
        /\ a + 1 <= Len(l) /\ l[a] = "-" /\ l[a + 1] = "-"

\* A line matching the name-line pattern.
IsNameLine(l) == NAME_RE(l) # None

\* The first position from j on of a line that is not blank; N + 1 if none.
FirstNonBlank(j) ==
    IF \E i \in j..N : ~IsBlank(L[i])
    THEN CHOOSE i \in j..N : ~IsBlank(L[i]) /\ \A m \in j..(i - 1) : IsBlank(L[m])
    ELSE N + 1

\* The number of consecutive comment lines from position d on.
CommentRun(d) ==
    CHOOSE k \in 0..(N + 1 - d) :
        /\ \A j \in d..(d + k - 1) : IsComment(L[j])
        /\ d + k = N + 1 \/ ~IsComment(L[d + k])

\* The first position from b on of a name line; N + 1 if none.
NextNameLine(b) ==
    IF \E i \in b..N : IsNameLine(L[i])
    THEN CHOOSE i \in b..N :
             IsNameLine(L[i]) /\ \A m \in b..(i - 1) : ~IsNameLine(L[m])
    ELSE N + 1

\* The block whose name line is at position h: where its documentation
\* lines start, how many there are, where its body starts and where it ends.
DocStart(h) == FirstNonBlank(h + 1)

DocCount(h) == IF DocStart(h) > N THEN 0 ELSE CommentRun(DocStart(h))

BodyStart(h) == FirstNonBlank(DocStart(h) + DocCount(h))

BodyEnd(h) == NextNameLine(BodyStart(h))

\* The query parse_query has just returned.
Last == returned[Len(returned)]

Finished == pc \in {"return", "raised", "invoked"}

\* l without the whitespace at its end.
RStrip(l) ==
    SubSeq(l, 1, CHOOSE e \in 0..Len(l) :
                     /\ e = 0 \/ ~IsSpace(l[e])
                     /\ \A i \in (e + 1)..Len(l) : IsSpace(l[i]))

\* s ends with t.
EndsWith(s, t) ==
    Len(t) <= Len(s) /\ SubSeq(s, Len(s) - Len(t) + 1, Len(s)) = t

\* The characters of s.
Chars(s) == { s[i] : i \in 1..Len(s) }

\* A comment line without its leading whitespace, its comment marker and all
\* the whitespace after the marker.
StripMarker(l) ==
    CHOOSE r \in { SubSeq(l, p, Len(l)) : p \in 1..(Len(l) + 1) } :
        /\ r = <<>> \/ ~IsSpace(r[1])
        /\ \E a \in 1..Len(l) :
              /\ \A i \in 1..(a - 1) : IsSpace(l[i])
              /\ a + 1 <= Len(l) - Len(r) /\ l[a] = "-" /\ l[a + 1] = "-"
              /\ \A i \in (a + 2)..(Len(l) - Len(r)) : IsSpace(l[i])

\* A comment line without its leading whitespace, its comment marker and at
\* most one whitespace character after the marker.
StripMarkerAndOneSpace(l) ==
    LET a == CHOOSE i \in 1..Len(l) :
                 l[i] = "-" /\ \A m \in 1..(i - 1) : IsSpace(l[m])
    IN  IF a + 2 <= Len(l) /\ IsSpace(l[a + 2])
        THEN SubSeq(l, a + 3, Len(l))
        ELSE SubSeq(l, a + 2, Len(l))

\* ------------------------------------------------------------------ claims

\* C1: a source in which the name line of query q is followed by zero or
\* more comment lines that are no name lines and then at once by the end of
\* input or by another name line ends in a ParseError naming q, and no
\* mapping is returned.
C1_MissingBodyRaises ==
    LET h == FirstNonBlank(1) IN
    ( /\ Finished
      /\ h <= N /\ IsNameLine(L[h])
      /\ \E k \in 0..(N - h) :
            /\ \A j \in (h + 1)..(h + k) : IsComment(L[j]) /\ ~IsNameLine(L[j])
            /\ h + k = N \/ IsNameLine(L[h + k + 1]) )
    => /\ pc = "raised"
       /\ error.msg \in {ExpectingDocOrBody, ExpectingBody}
       /\ EndsWith(RStrip(L[h]), error.query)
          \/ EndsWith(RStrip(L[h]), error.query \o <<"!">>)

\* C2: a source that is empty or holds only blank lines parses to an empty
\* mapping and raises no ParseError.
C2_BlankSourceParsesEmpty ==
    (Finished /\ \A i \in 1..N : IsBlank(L[i]))
    => pc # "raised" /\ error = NoError /\ queries = <<>>

\* C3: the body of a parsed query is the newline-join of the source lines
\* from its first body line up to, and without, the next name line or the
\* end of input, unaltered and in order, blank lines included.
C3_BodyVerbatim ==
    pc = "returned"
    => /\ BodyStart(header) <= N
       /\ Last.body = Join(SubSeq(L, BodyStart(header), BodyEnd(header) - 1))
       /\ Position(parser) = BodyEnd(header)

C3_Witness ==
    /\ pc = "returned"
    /\ BodyEnd(header) <= N
    /\ BodyEnd(header) - BodyStart(header) >= 2
    /\ IsBlank(L[BodyEnd(header) - 1])

\* C4, as stated: the doc of a parsed query is the newline-join of its
\* documentation lines, each without its comment marker and at most one
\* whitespace character after it.
C4_DocStripsOneSpace ==
    pc = "returned"
    => Last.doc = Join([i \in 1..DocCount(header) |->
                           StripMarkerAndOneSpace(L[DocStart(header) + i - 1])])

\* C4, amended: the doc of a parsed query is the newline-join, in source
\* order, of its documentation lines, each without its leading whitespace,
\* its comment marker and all the whitespace after the marker; it is the
\* empty string when the block has no documentation lines.
C4_DocStripsAllSpaces ==
    pc = "returned"
    => /\ Last.doc = Join([i \in 1..DocCount(header) |->
                              StripMarker(L[DocStart(header) + i - 1])])
       /\ DocCount(header) = 0 => Last.doc = <<>>

C4_Witness ==
    /\ pc = "returned"
    /\ DocCount(header) = 2
    /\ Last.doc # Join([i \in 1..DocCount(header) |-> L[DocStart(header) + i - 1]])
    /\ Len(Last.doc) > 0

\* C5: a stored query is a statement exactly if the identifier of its name
\* line ends in "!", its name is the identifier without the "!", and no key
\* of the mapping holds a "!".
C5_StatementIffBang ==
    /\ pc = "returned"
       => /\ Last.statement <=> EndsWith(RStrip(L[header]), <<"!">>)
          /\ Last.name # <<>>
          /\ Chars(Last.name) \subseteq IdentChars
          /\ EndsWith(RStrip(L[header]),
                      IF Last.statement THEN Last.name \o <<"!">> ELSE Last.name)
          /\ LET rest == Len(RStrip(L[header])) - Len(Last.name)
                         - (IF Last.statement THEN 1 ELSE 0)
             IN  rest >= 1 /\ L[header][rest] \notin IdentChars
    /\ \A i \in 1..Len(queries) :
          /\ "!" \notin Chars(queries[i].name)
          /\ \E j \in 1..Len(returned) : queries[i] = returned[j]

C5_Witness ==
    /\ pc = "return"
    /\ \E i, j \in 1..Len(queries) :
          /\ queries[i].statement /\ ~queries[j].statement

\* C6: when several blocks of a valid source have the same name, the mapping
\* has one entry for the name, holding the record of the last of them.
C6_LastBlockWins ==
    pc \in {"parse_queries", "return"}
    => /\ \A j \in 1..Len(returned) :
             \E i \in 1..Len(queries) : queries[i].name = returned[j].name
       /\ \A i \in 1..Len(queries) :
             /\ \A m \in 1..Len(queries) :
                   queries[m].name = queries[i].name => m = i
             /\ \E j \in 1..Len(returned) :
                   /\ queries[i] = returned[j]
                   /\ \A m \in (j + 1)..Len(returned) :
                         returned[m].name # queries[i].name
       /\ pc = "return" => error = NoError

C6_Witness ==
    /\ pc = "return"
    /\ Len(queries) = 1
    /\ \E j, m \in 1..Len(returned) :
          /\ j < m
          /\ returned[j].name = returned[m].name
          /\ returned[j].statement # returned[m].statement
          /\ returned[j].body # returned[m].body

\* The positions in calls of the calls of method op.
CallsOf(op) == { i \in 1..Len(calls) : calls[i].op = op }

\* The query the invoked operation was generated for.
InvokedQuery ==
    CHOOSE q \in { queries[i] : i \in 1..Len(queries) } : q.name = invoked.query

\* C7: the operation of a query calls execute once, with the body and the
\* named parameters, on the session if there is one and else on a new
\* cursor of the connection; for a statement it never fetches, returns the
\* result of execute and commits the session, after execute, exactly when
\* there is a session; otherwise it never commits and returns the rows of a
\* fetchall made after execute.
C7_OperationCalls ==
    pc = "invoked"
    => LET q == InvokedQuery
           session == invoked.self.session # None
       IN  /\ Cardinality(CallsOf("execute")) = 1
           /\ \A e \in CallsOf("execute") :
                 /\ calls[e].body = q.body
                 /\ calls[e].kwargs = invoked.kwargs
                 /\ session => calls[e].on = "session" /\ CallsOf("cursor") = {}
                 /\ ~session =>
                       /\ calls[e].on = "cursor"
                       /\ \E c \in CallsOf("cursor") :
                             c < e /\ calls[c].on = "connection"
                 /\ q.statement =>
                       /\ CallsOf("fetchall") = {}
                       /\ ret = "execute"
                       /\ Cardinality(CallsOf("commit")) = (IF session THEN 1 ELSE 0)
                       /\ \A c \in CallsOf("commit") :
                             c > e /\ calls[c].on = "session"
                 /\ ~q.statement =>
                       /\ CallsOf("commit") = {}
                       /\ ret = "fetchall"
                       /\ Cardinality(CallsOf("fetchall")) = 1
                       /\ \A f \in CallsOf("fetchall") : f > e

C7_Witness ==
    /\ pc = "invoked"
    /\ InvokedQuery.statement
    /\ invoked.self.session # None
    /\ CallsOf("commit") # {}

\* C8: a ParseError carries the line counter of the moment it is raised:
\* the number of the current line, or the number of the last line of the
\* source at end of input; a source whose first non-blank line is line k and
\* is no name line fails with line number k.
C8_ErrorLine ==
    /\ pc = "raised"
       => /\ error.linecount = parser.linecount
          /\ error.linecount = (IF eof(parser) THEN N ELSE Position(parser))
    /\ (Finished /\ FirstNonBlank(1) <= N /\ ~IsNameLine(L[FirstNonBlank(1)]))
       => /\ pc = "raised"
          /\ error.msg = ExpectingName
          /\ error.linecount = FirstNonBlank(1)

C8_Witness ==
    /\ pc = "raised"
    /\ eof(parser)
    /\ error.msg = ExpectingBody
    /\ error.linecount = N
    /\ N >= 3

\* C9: every query of the mapping has a body that is not empty: it has at
\* least one line, its first line is neither blank nor a name line, and
\* none of its lines is a name line.
C9_BodyNotEmpty ==
    \A i \in 1..Len(queries) :
        LET b == splitlines(queries[i].body) IN
        /\ queries[i].body # <<>>
        /\ Len(b) >= 1
        /\ ~IsBlank(b[1])
        /\ \A j \in 1..Len(b) : ~IsNameLine(b[j])

C9_Witness ==
    /\ pc = "return"
    /\ Len(queries) >= 1
    /\ \E i \in 1..Len(queries) : Len(splitlines(queries[i].body)) = 2

\* A line that starts like a name line and is none.
IsMalformedName(l) ==
    /\ IsComment(l)
    /\ ~IsNameLine(l)
    /\ Len(StripMarker(l)) >= 5
    /\ SubSeq(StripMarker(l), 1, 5) = <<"n", "a", "m", "e", ":">>

\* C10: when parse_query returns, the cursor is at the end of input or on a
\* name line; so the "Expecting '-- name: <query-name>'" error is raised
\* for the first block only, on the first non-blank line of the source or
\* at the end of a source of blank lines, and a malformed name line met
\* after the body has started becomes a line of the body.
C10_NameErrorOnlyFirst ==
    /\ pc = "returned" => eof(parser) \/ IsNameLine(parser.line[1])
    /\ (pc = "parse_query" /\ returned # <<>>)
       => ~eof(parser) /\ IsNameLine(parser.line[1])
    /\ error.msg = ExpectingName
       => /\ returned = <<>>
          /\ N >= 1
          /\ Position(parser) = FirstNonBlank(1)
    /\ pc = "returned"
       => \A j \in (BodyStart(header) + 1)..N :
             (IsMalformedName(L[j]) /\ j < BodyEnd(header))
             => \E k \in 1..Len(body_lines) : body_lines[k] = L[j]

C10_Witness ==
    /\ pc = "return"
    /\ Len(returned) >= 1
    /\ \E j \in 2..Len(splitlines(returned[1].body)) :
          IsMalformedName(splitlines(returned[1].body)[j])
====
